---- MODULE Spec2Model ----
(***************************************************************************)
(* The /conversation relay of bin/server.js: the request handler, the      *)
(* close listener, the progress callback, getClient and                    *)
(* filterClientOptions.                                                    *)
(*                                                                         *)
(* JavaScript values are tagged records [t |-> <typeof-like tag>, v |-> x].*)
(* An object is a TLA+ function from its own property names to values.     *)
(***************************************************************************)
EXTENDS Integers, Sequences, FiniteSets, TLC

(***************************************************************************)
(* JavaScript values                                                       *)
(***************************************************************************)
Undefined == [t |-> "undefined", v |-> 0]
Null == [t |-> "null", v |-> 0]
Str(s) == [t |-> "string", v |-> s]
Num(n) == [t |-> "number", v |-> n]
Bool(b) == [t |-> "boolean", v |-> b]
Obj(f) == [t |-> "object", v |-> f]
Arr(q) == [t |-> "array", v |-> q]

\* the object literal {} : no own property
EmptyFn == [k \in {} |-> Undefined]
\* an object with the single property k
Single(k, x) == [p \in {k} |-> x]

\* typeof x === "object" (true of null too)
TypeofObject(x) == x.t \in {"object", "array", "null"}

\* ToBoolean(x), the test behind !x, x || y and if (x)
Truthy(x) ==
    CASE x.t = "undefined" -> FALSE
      [] x.t = "null" -> FALSE
      [] x.t = "string" -> x.v # ""
      [] x.t = "number" -> x.v # 0
      [] x.t = "boolean" -> x.v
      [] OTHER -> TRUE

\* o[k] on an object: undefined when k is no own property
Get(o, k) == IF o.t = "object" /\ k \in DOMAIN o.v THEN o.v[k] ELSE Undefined

\* o[k] = x on an object
Put(o, k, x) ==
    Obj([p \in (DOMAIN o.v) \cup {k} |-> IF p = k THEN x ELSE o.v[p]])

\* delete o[k]
Delete(o, k) == Obj([p \in (DOMAIN o.v) \ {k} |-> o.v[p]])

\* Object.keys(o) of an object or an array (the indices "0", "1", ...)
Keys(o) ==
    IF o.t = "array" THEN {ToString(i - 1) : i \in 1..Len(o.v)} ELSE DOMAIN o.v

\* o[k] for k \in Keys(o)
Own(o, k) ==
    IF o.t = "array"
    THEN o.v[CHOOSE i \in 1..Len(o.v) : ToString(i - 1) = k]
    ELSE o.v[k]

\* list.includes(x) on an array of strings (strict equality)
Includes(list, x) ==
    x.t = "string" /\ \E i \in 1..Len(list.v) : list.v[i] = x.v

(***************************************************************************)
(* filterClientOptions(inputOptions, clientToUseForMessage), lines 289-337.*)
(* whitelistConfig is the module constant perMessageClientOptionsWhitelist.*)
(* The result records the returned value, whether the call threw, the      *)
(* state of the caller's object afterwards (it is mutated in place at line *)
(* 302) and whether the returned value is that same object (line 308).     *)
(***************************************************************************)
\* lines 295-299 without the test of line 298
OverrideAnyClient(inputOptions, whitelistConfig) ==
    /\ Truthy(Get(whitelistConfig, "validClientsToUse"))
    /\ Truthy(Get(inputOptions, "clientToUse"))
    /\ Get(inputOptions, "clientToUse").t = "string"

\* lines 295-299: the caller's clientToUse is accepted
OverrideAccepted(inputOptions, whitelistConfig) ==
    /\ Truthy(Get(whitelistConfig, "validClientsToUse"))
    /\ Truthy(Get(inputOptions, "clientToUse"))
    /\ Includes(Get(whitelistConfig, "validClientsToUse"),
                Get(inputOptions, "clientToUse"))

\* lines 295-303: clientToUseForMessage after the if/else
EffectiveClient(inputOptions, clientToUseForMessage, whitelistConfig) ==
    IF OverrideAccepted(inputOptions, whitelistConfig)
    THEN Get(inputOptions, "clientToUse").v
    ELSE clientToUseForMessage

\* lines 295-303 with the accepted clientToUse removed from inputOptions
\* once read (as line 96 does with the returned object)
ForceOrConsume(inputOptions, clientToUseForMessage, whitelistConfig) ==
    IF OverrideAccepted(inputOptions, whitelistConfig)
    THEN Delete(inputOptions, "clientToUse")
    ELSE Put(inputOptions, "clientToUse", Str(clientToUseForMessage))

\* lines 295-303 with the write of line 302 made on both branches
ForceAlways(inputOptions, clientToUseForMessage, whitelistConfig) ==
    Put(inputOptions, "clientToUse", Str(clientToUseForMessage))

\* lines 295-303: inputOptions after the if/else (line 302 writes into it)
ForceClient(inputOptions, clientToUseForMessage, whitelistConfig) ==
    IF OverrideAccepted(inputOptions, whitelistConfig)
    THEN inputOptions
    ELSE Put(inputOptions, "clientToUse", Str(clientToUseForMessage))

\* lines 320-326 without the test of line 322
NestedAll(whitelist, property, value) == Keys(value)

\* lines 320-326: the nested names of value under property that are listed
NestedAllowed(whitelist, property, value) ==
    {n \in Keys(value) : Includes(whitelist, Str(property \o "." \o n))}

\* lines 311-336 with outputOptions starting as {} (line 312 left out)
FilterLoopUnseeded(inputOptions, effective, whitelist) ==
    LET allowed(p) == Includes(whitelist, Str(p))
        nested(p) == ~allowed(p) /\ TypeofObject(inputOptions.v[p])
        kept == {p \in Keys(inputOptions) :
                    \/ allowed(p)
                    \/ /\ nested(p)
                       /\ NestedAllowed(whitelist, p, inputOptions.v[p]) # {}}
    IN  Obj([p \in kept |->
              IF allowed(p) THEN inputOptions.v[p]
              ELSE Obj([n \in NestedAllowed(whitelist, p, inputOptions.v[p]) |->
                          Own(inputOptions.v[p], n)])])

\* lines 311-336: outputOptions after the loop over Object.keys(inputOptions)
FilterLoop(inputOptions, effective, whitelist) ==
    LET allowed(p) == Includes(whitelist, Str(p))
        nested(p) == ~allowed(p) /\ TypeofObject(inputOptions.v[p])
        kept == {p \in Keys(inputOptions) :
                    \/ allowed(p)
                    \/ /\ nested(p)
                       /\ NestedAllowed(whitelist, p, inputOptions.v[p]) # {}}
    IN  Obj([p \in kept \cup {"clientToUse"} |->
              IF p \in kept /\ allowed(p) THEN inputOptions.v[p]
              ELSE IF p \in kept
              THEN Obj([n \in NestedAllowed(whitelist, p, inputOptions.v[p]) |->
                          Own(inputOptions.v[p], n)])
              ELSE Str(effective)])

\* line 320: Object.keys(null) throws a TypeError
LoopThrows(inputOptions, whitelist) ==
    \E p \in Keys(inputOptions) :
        ~Includes(whitelist, Str(p)) /\ inputOptions.v[p] = Null

\* line 290 without the test of the whitelist configuration
NoInputOptions(inputOptions, whitelistConfig) == ~Truthy(inputOptions)

\* line 290
NothingToFilter(inputOptions, whitelistConfig) ==
    ~Truthy(inputOptions) \/ ~Truthy(whitelistConfig)

filterClientOptions(inputOptions, clientToUseForMessage, whitelistConfig) ==
    IF NothingToFilter(inputOptions, whitelistConfig)
    THEN [threw |-> FALSE, ret |-> Null, input |-> inputOptions, same |-> FALSE]
    ELSE IF inputOptions.t # "object" /\
            ~OverrideAccepted(inputOptions, whitelistConfig)
    \* line 302 on a primitive: assignment throws in module (strict) code
    THEN [threw |-> TRUE, ret |-> Undefined, input |-> inputOptions,
          same |-> FALSE]
    ELSE LET effective ==
                 EffectiveClient(inputOptions, clientToUseForMessage,
                                 whitelistConfig)
             forced ==
                 ForceClient(inputOptions, clientToUseForMessage,
                             whitelistConfig)
             whitelist == Get(whitelistConfig, effective)
         IN  IF ~Truthy(whitelist)
             THEN [threw |-> FALSE, ret |-> forced, input |-> forced,
                   same |-> TRUE]
             ELSE IF LoopThrows(forced, whitelist)
             THEN [threw |-> TRUE, ret |-> Undefined, input |-> forced,
                   same |-> FALSE]
             ELSE [threw |-> FALSE,
                   ret |-> FilterLoop(forced, effective, whitelist),
                   input |-> forced, same |-> FALSE]

(***************************************************************************)
(* JSON.stringify, on the values the relay encodes: strings, numbers,      *)
(* booleans, null, and objects of at most one property (the order of the   *)
(* properties of a larger object is not kept by this model's objects).     *)
(***************************************************************************)
Quote(s) == "\"" \o s \o "\""

RECURSIVE JSONstringify(_)
JSONstringify(x) ==
    CASE x.t = "string" -> Quote(x.v)
      [] x.t = "number" -> ToString(x.v)
      [] x.t = "boolean" -> IF x.v THEN "true" ELSE "false"
      [] x.t = "null" -> "null"
      [] x.t = "object" ->
            IF DOMAIN x.v = {} THEN "{}"
            ELSE LET k == CHOOSE k \in DOMAIN x.v : TRUE
                 IN  "{" \o Quote(k) \o ":" \o JSONstringify(x.v[k]) \o "}"
      [] OTHER -> "undefined"

\* lines 152-155: JSON.stringify({ code, error: message })
StringifyError(code, message) ==
    "{" \o Quote("code") \o ":" \o JSONstringify(code) \o ","
        \o Quote("error") \o ":" \o JSONstringify(message) \o "}"

(***************************************************************************)
(* Frames handed to reply.sse, and reply.raw.end(), in the order of the    *)
(* calls. event "" is a frame without an event name.                       *)
(***************************************************************************)
Sse(event, data) == [kind |-> "sse", event |-> event, data |-> data]
End == [kind |-> "end", event |-> "", data |-> ""]

\* line 71 without JSON.stringify
TokenFrameRaw(token) == Sse("", token.v)

\* line 71
TokenFrame(token) == Sse("", JSONstringify(token))
\* line 130
ResultFrame(result) == Sse("result", JSONstringify(result))
\* line 131
DoneFrame == Sse("", "[DONE]")
\* lines 149-156
ErrorFrame(code, message) == Sse("error", StringifyError(code, message))

\* lines 66-73 without the test of line 70
onProgressEveryToken(token) == <<TokenFrame(token)>>

\* lines 66-73: the frames one call of onProgress(token) hands to reply.sse
onProgress(token) ==
    IF token # Str("[DONE]") THEN <<TokenFrame(token)>> ELSE <<>>

\* lines 130-131: the frames of a successful streaming completion
SuccessFrames(result) == <<ResultFrame(result), DoneFrame>>

(***************************************************************************)
(* Errors: objects with name, message and, for some, data {code, message}. *)
(***************************************************************************)
ErrorObj(name, message) ==
    Obj([k \in {"name", "message"} |->
            IF k = "name" THEN Str(name) ELSE Str(message)])

WithData(e, code, message) ==
    Put(e, "data",
        Obj([k \in {"code", "message"} |->
                IF k = "code" THEN code ELSE message]))

\* lines 82-86
invalidError ==
    WithData(ErrorObj("Error", ""), Num(400),
             Str("The message parameter is required."))

\* x?.k
OptGet(x, k) == IF x.t \in {"undefined", "null"} THEN Undefined ELSE Get(x, k)

\* x || y
Or(x, y) == IF Truthy(x) THEN x ELSE y

\* line 81 testing only for a missing property
MessageAbsent(body) == Get(body, "message") = Undefined

\* line 81
MessageMissing(body) == ~Truthy(Get(body, "message"))

\* line 138: error.name is read when error?.data?.code is falsy, and reading
\* a property of null or undefined throws a TypeError
CodeThrows(error) ==
    /\ ~Truthy(OptGet(OptGet(error, "data"), "code"))
    /\ error.t \in {"undefined", "null"}

\* line 138
ResolveCode(error) ==
    Or(OptGet(OptGet(error, "data"), "code"),
       IF Get(error, "name") = Str("UnauthorizedRequest")
       THEN Num(401) ELSE Num(503))

\* lines 144-147
ResolveMessage(error, defaultClient) ==
    Or(OptGet(OptGet(error, "data"), "message"),
       Or(OptGet(error, "message"),
          Str("There was an error communicating with "
              \o (IF defaultClient = "bing" THEN "Bing" ELSE "ChatGPT")
              \o ".")))

(***************************************************************************)
(* getClient(clientToUseForMessage), lines 259-280.  ChatGPTImageClient is *)
(* not imported (lines 8-10), so the "dall-e-3" case throws a              *)
(* ReferenceError when it evaluates the constructor name.                  *)
(***************************************************************************)
\* lines 259-280 with a default case that falls back to ChatGPTClient
getClientFallback(clientToUseForMessage) ==
    CASE clientToUseForMessage = "bing" ->
            [threw |-> FALSE, client |-> "BingAIClient", error |-> Undefined]
      [] clientToUseForMessage = "chatgpt-browser" ->
            [threw |-> FALSE, client |-> "ChatGPTBrowserClient",
             error |-> Undefined]
      [] clientToUseForMessage = "dall-e-3" ->
            [threw |-> TRUE, client |-> "",
             error |-> ErrorObj("ReferenceError",
                                "ChatGPTImageClient is not defined")]
      [] OTHER ->
            [threw |-> FALSE, client |-> "ChatGPTClient", error |-> Undefined]

getClient(clientToUseForMessage) ==
    CASE clientToUseForMessage = "bing" ->
            [threw |-> FALSE, client |-> "BingAIClient", error |-> Undefined]
      [] clientToUseForMessage = "chatgpt-browser" ->
            [threw |-> FALSE, client |-> "ChatGPTBrowserClient",
             error |-> Undefined]
      [] clientToUseForMessage = "chatgpt" ->
            [threw |-> FALSE, client |-> "ChatGPTClient", error |-> Undefined]
      [] clientToUseForMessage = "dall-e-3" ->
            [threw |-> TRUE, client |-> "",
             error |-> ErrorObj("ReferenceError",
                                "ChatGPTImageClient is not defined")]
      [] OTHER ->
            [threw |-> TRUE, client |-> "",
             error |-> ErrorObj("Error", "Invalid clientToUse: "
                                         \o clientToUseForMessage)]

(***************************************************************************)
(* Bounds and input sets                                                   *)
(***************************************************************************)
\* calls of onProgress per request
MaxTokens == 2
\* "close" events per response
MaxClose == 2

\* The handler keeps all of its state in locals and closures (lines 55-79),
\* so the state is indexed by request.  Spec drives one request, Main,
\* through every input; the others stay idle in it.
Reqs == {"r1", "r2"}
Main == "r1"

Tokens == {Str("a"), Str("[DONE]")}

\* settings.apiOptions.clientToUse || settings.clientToUse || "chatgpt"
DefaultClients == {"chatgpt", "bing", "bogus"}

\* settings.apiOptions.perMessageClientOptionsWhitelist || null
Whitelists ==
    { Null,
      Obj(EmptyFn),
      Obj(Single("validClientsToUse", Arr(<<"bing", "custom">>))),
      Obj([k \in {"validClientsToUse", "chatgpt", "bing"} |->
            CASE k = "validClientsToUse" -> Arr(<<"bing", "custom">>)
              [] k = "chatgpt" -> Arr(<<"model", "modelOptions.temperature">>)
              [] k = "bing" -> Arr(<<"toneStyle", "clientToUse">>)]) }

\* body.clientOptions (Undefined: the property is absent)
RawOptions ==
    { Undefined,
      Null,
      Obj(Single("model", Str("m"))),
      Obj(Single("clientToUse", Str("bing"))),
      Obj(Single("clientToUse", Str("custom"))),
      Obj([k \in {"clientToUse", "model", "modelOptions"} |->
            CASE k = "clientToUse" -> Str("chatgpt-browser")
              [] k = "model" -> Str("m")
              [] k = "modelOptions" ->
                    Obj([n \in {"temperature", "secret"} |->
                            IF n = "temperature" THEN Num(1) ELSE Str("s")])]),
      Obj(Single("modelOptions", Null)) }

\* an object of the listed properties, those given as Undefined left out
Body(message, stream, clientOptions) ==
    LET val(k) == CASE k = "message" -> message
                    [] k = "stream" -> stream
                    [] k = "clientOptions" -> clientOptions
    IN  Obj([k \in {k \in {"message", "stream", "clientOptions"} :
                        val(k) # Undefined} |-> val(k)])

\* request.body
Bodies ==
    {Undefined} \cup
    { Body(m, s, o) : m \in {Undefined, Str(""), Str("hi")},
                      s \in {Undefined, Bool(TRUE)},
                      o \in RawOptions }

\* what sendMessage resolves with
Results == {Undefined, Null, Obj(Single("text", Str("ab")))}

\* what sendMessage rejects with
Rejections ==
    { Undefined,
      Null,
      Str("oops"),
      ErrorObj("Error", "boom"),
      ErrorObj("UnauthorizedRequest", ""),
      WithData(ErrorObj("Error", "boom"), Num(429), Str("rate limited")),
      WithData(ErrorObj("UnauthorizedRequest", "denied"), Num(403), Str("")),
      WithData(ErrorObj("Error", "zero"), Num(0), Undefined) }

(***************************************************************************)
(* State                                                                   *)
(***************************************************************************)
VARIABLES
    clientToUse,                      \* line 42
    perMessageClientOptionsWhitelist, \* line 43
    pc,               \* where each request's handler is
    body,             \* line 55, with what the handler has written into it
    abortController,  \* line 56: signal.aborted, and the abort() calls made
    closes,           \* "close" events of reply.raw so far
    out,              \* reply.sse / reply.raw.end calls, in order
    response,         \* reply.send calls, in order
    filterCalls,      \* filterClientOptions calls: arguments and outcome
    getClientCalls,   \* getClient calls: the argument
    sendMessageCalls, \* sendMessage calls: the client and the arguments
    progress,         \* onProgress calls: the token, and whether it came
                      \* after sendMessage had settled
    result,           \* line 78
    error,            \* line 79
    failure,          \* lines 138, 144: code and message, once resolved
    outAtDisconnect   \* Len(out) when the client closed the connection
                      \* with sendMessage pending; -1 if it did not

vars ==
    <<clientToUse, perMessageClientOptionsWhitelist, pc, body,
      abortController, closes, out, response, filterCalls, getClientCalls,
      sendMessageCalls, progress, result, error, failure, outAtDisconnect>>

config == <<clientToUse, perMessageClientOptionsWhitelist>>

NoFailure == [resolved |-> FALSE, code |-> Undefined, message |-> Undefined]

Init ==
    /\ clientToUse \in DefaultClients
    /\ perMessageClientOptionsWhitelist \in Whitelists
    /\ pc = [r \in Reqs |-> "idle"]
    /\ body = [r \in Reqs |-> Undefined]
    /\ abortController = [r \in Reqs |-> [aborted |-> FALSE, aborts |-> 0]]
    /\ closes = [r \in Reqs |-> 0]
    /\ out = [r \in Reqs |-> <<>>]
    /\ response = [r \in Reqs |-> <<>>]
    /\ filterCalls = [r \in Reqs |-> <<>>]
    /\ getClientCalls = [r \in Reqs |-> <<>>]
    /\ sendMessageCalls = [r \in Reqs |-> <<>>]
    /\ progress = [r \in Reqs |-> <<>>]
    /\ result = [r \in Reqs |-> Undefined]
    /\ error = [r \in Reqs |-> Undefined]
    /\ failure = [r \in Reqs |-> NoFailure]
    /\ outAtDisconnect = [r \in Reqs |-> -1]

\* body.stream === true
Streaming(b) == Get(b, "stream") = Bool(TRUE)

(***************************************************************************)
(* Lines 125-160: the handler from the end of the try block on, with       *)
(* result and error as the try block left them.                            *)
(***************************************************************************)
Render(r, b, res, err) ==
    /\ result' = [result EXCEPT ![r] = res]
    /\ error' = [error EXCEPT ![r] = err]
    /\ IF res # Undefined
       THEN /\ failure' = failure
            /\ IF Streaming(b)
               THEN /\ out' = [out EXCEPT ![r] = @ \o SuccessFrames(res)]
                    /\ pc' = [pc EXCEPT ![r] = "nextTick"]
                    /\ response' = response
               ELSE /\ response' = [response EXCEPT ![r] =
                            Append(@, [code |-> Num(200), body |-> res])]
                    /\ pc' = [pc EXCEPT ![r] = "done"]
                    /\ out' = out
       ELSE IF CodeThrows(err)
       THEN /\ pc' = [pc EXCEPT ![r] = "escaped"]
            /\ UNCHANGED <<failure, out, response>>
       ELSE LET code == ResolveCode(err)
                message == ResolveMessage(err, clientToUse)
            IN  /\ failure' = [failure EXCEPT ![r] =
                        [resolved |-> TRUE, code |-> code,
                         message |-> message]]
                /\ IF Streaming(b)
                   THEN /\ out' = [out EXCEPT ![r] =
                                Append(@, ErrorFrame(code, message))]
                        /\ pc' = [pc EXCEPT ![r] = "nextTick"]
                        /\ response' = response
                   ELSE /\ response' = [response EXCEPT ![r] =
                                Append(@, [code |-> code,
                                           body |-> Obj(Single("error",
                                                               message))])]
                        /\ pc' = [pc EXCEPT ![r] = "done"]
                        /\ out' = out

\* the TypeError of Object.keys(null), or of line 302 on a primitive
filterError ==
    ErrorObj("TypeError", "Cannot convert undefined or null to object")

(***************************************************************************)
(* server.post("/conversation"), lines 54-123 and, when the try block      *)
(* throws, on to lines 138-160: a request arrives and its handler runs to  *)
(* its first await.  Of the sendMessage arguments the model keeps the      *)
(* message, clientOptions, whether onProgress is a function, and the       *)
(* abortController; the other fields are copied from the body unchanged.   *)
(***************************************************************************)
Receive(r, requestBody) ==
    /\ pc[r] = "idle"
    /\ LET b == IF Truthy(requestBody) THEN requestBody ELSE Obj(EmptyFn)
       IN  IF MessageMissing(b)
           THEN /\ body' = [body EXCEPT ![r] = b]
                /\ Render(r, b, Undefined, invalidError)
                /\ UNCHANGED <<filterCalls, getClientCalls, sendMessageCalls>>
           ELSE LET raw == Get(b, "clientOptions")
                    f == filterClientOptions(raw, clientToUse,
                                             perMessageClientOptionsWhitelist)
                    b1 == IF raw.t = "object"
                          THEN Put(b, "clientOptions", f.input) ELSE b
                    \* line 94
                    takes == Truthy(f.ret) /\ Truthy(Get(f.ret, "clientToUse"))
                    clientToUseForMessage ==
                        IF takes THEN Get(f.ret, "clientToUse").v
                        ELSE clientToUse
                    \* line 96
                    clientOptions ==
                        IF takes THEN Delete(f.ret, "clientToUse") ELSE f.ret
                    \* line 96 when the filter returned the caller's object
                    b2 == IF takes /\ f.same
                          THEN Put(b1, "clientOptions", clientOptions) ELSE b1
                    messageClient == getClient(clientToUseForMessage)
                IN  /\ filterCalls' = [filterCalls EXCEPT ![r] =
                            Append(@, [inputOptions |-> raw,
                                       clientToUseForMessage |-> clientToUse,
                                       threw |-> f.threw, ret |-> f.ret,
                                       input |-> f.input])]
                    /\ IF f.threw
                       THEN /\ body' = [body EXCEPT ![r] = b1]
                            /\ Render(r, b1, Undefined, filterError)
                            /\ UNCHANGED <<getClientCalls, sendMessageCalls>>
                       ELSE /\ body' = [body EXCEPT ![r] = b2]
                            /\ getClientCalls' = [getClientCalls EXCEPT ![r] =
                                    Append(@, clientToUseForMessage)]
                            /\ IF messageClient.threw
                               THEN /\ Render(r, b2, Undefined,
                                              messageClient.error)
                                    /\ UNCHANGED sendMessageCalls
                               ELSE /\ sendMessageCalls' =
                                        [sendMessageCalls EXCEPT ![r] =
                                            Append(@,
                                              [client |-> messageClient.client,
                                               message |-> Get(b2, "message"),
                                               clientOptions |-> clientOptions,
                                               onProgress |-> Streaming(b2),
                                               abortController |-> r])]
                                    /\ pc' = [pc EXCEPT ![r] = "awaiting"]
                                    /\ UNCHANGED <<result, error, failure,
                                                   out, response>>
    /\ UNCHANGED <<config, abortController, closes, progress, outAtDisconnect>>

\* lines 54, 71: the reply that the onProgress made for request r writes to
\* is the reply of that run of the handler
ReplyOf(r) == r

\* The backend calls the onProgress it was given (lines 66-73).  It holds
\* the callback for good, so it can also call it after sendMessage settled.
Progress(r, token) ==
    /\ sendMessageCalls[r] # <<>>
    /\ sendMessageCalls[r][1].onProgress
    /\ Len(progress[r]) < MaxTokens
    /\ progress' = [progress EXCEPT ![r] =
            Append(@, [token |-> token, late |-> pc[r] # "awaiting"])]
    /\ out' = [out EXCEPT ![ReplyOf(r)] = @ \o onProgress(token)]
    /\ UNCHANGED <<config, pc, body, abortController, closes, response,
                   filterCalls, getClientCalls, sendMessageCalls, result,
                   error, failure, outAtDisconnect>>

\* line 106: sendMessage resolves, and the handler runs on (lines 125-160)
Resolve(r, value) ==
    /\ pc[r] = "awaiting"
    /\ Render(r, body[r], value, Undefined)
    /\ UNCHANGED <<config, body, abortController, closes, filterCalls,
                   getClientCalls, sendMessageCalls, progress,
                   outAtDisconnect>>

\* lines 106, 121-123: sendMessage rejects, and the handler runs on
Reject(r, reason) ==
    /\ pc[r] = "awaiting"
    /\ Render(r, body[r], Undefined, reason)
    /\ UNCHANGED <<config, body, abortController, closes, filterCalls,
                   getClientCalls, sendMessageCalls, progress,
                   outAtDisconnect>>

\* lines 132-133 and 157-158: the timer of nextTick fires, reply.raw.end()
NextTick(r) ==
    /\ pc[r] = "nextTick"
    /\ out' = [out EXCEPT ![r] = Append(@, End)]
    /\ pc' = [pc EXCEPT ![r] = "done"]
    /\ UNCHANGED <<config, body, abortController, closes, response,
                   filterCalls, getClientCalls, sendMessageCalls, progress,
                   result, error, failure, outAtDisconnect>>

\* line 56 with one controller for the whole module
SharedController(r) == Main

\* lines 56-60: the controller that the close listener of request r aborts
\* is the one made by that run of the handler
ControllerOf(r) == r

\* line 59 without the guard
AlwaysAbort(controller) == TRUE

\* line 59
ShouldAbort(controller) == controller.aborted = FALSE

\* lines 58-62: reply.raw emits "close" (the client went away, or the
\* response ended); the listener is registered when the handler starts
Close(r) ==
    /\ pc[r] # "idle"
    /\ closes[r] < MaxClose
    /\ closes' = [closes EXCEPT ![r] = @ + 1]
    /\ abortController' = [abortController EXCEPT ![ControllerOf(r)] =
            IF ShouldAbort(@)
            THEN [aborted |-> TRUE, aborts |-> @.aborts + 1]
            ELSE @]
    /\ outAtDisconnect' = [outAtDisconnect EXCEPT ![r] =
            IF pc[r] = "awaiting" /\ @ = -1 THEN Len(out[r]) ELSE @]
    /\ UNCHANGED <<config, pc, body, out, response, filterCalls,
                   getClientCalls, sendMessageCalls, progress, result, error,
                   failure>>

\* One request, through every input and every interleaving of the backend,
\* the timer and the transport with its handler.
Next ==
    \/ \E b \in Bodies : Receive(Main, b)
    \/ \E t \in Tokens : Progress(Main, t)
    \/ \E v \in Results : Resolve(Main, v)
    \/ \E e \in Rejections : Reject(Main, e)
    \/ NextTick(Main)
    \/ Close(Main)

Spec == Init /\ [][Next]_vars

(***************************************************************************)
(* Properties                                                              *)
(***************************************************************************)
RequiredMessage == Str("The message parameter is required.")

\* the handler of r has run past its try block without a result
Failed(r) == pc[r] \in {"nextTick", "done", "escaped"} /\ result[r] = Undefined

\* the sse frames of r with the given event name
FramesOf(r, event) ==
    {i \in 1..Len(out[r]) : out[r][i].kind = "sse" /\ out[r][i].event = event}

\* C1: a request whose message is missing or empty fails with code 400 and
\* the message "The message parameter is required." (an error frame when
\* streaming, status 400 and {error} otherwise), and neither the filter, nor
\* getClient, nor sendMessage is called for it.
C1_MissingMessage ==
    \A r \in Reqs :
        (pc[r] # "idle" /\ ~Truthy(Get(body[r], "message"))) =>
            /\ failure[r] = [resolved |-> TRUE, code |-> Num(400),
                             message |-> RequiredMessage]
            /\ IF Get(body[r], "stream") = Bool(TRUE)
               THEN /\ response[r] = <<>>
                    /\ Len(out[r]) >= 1
                    /\ out[r][1] =
                         [kind |-> "sse", event |-> "error",
                          data |-> "{\"code\":400,\"error\":"
                              \o "\"The message parameter is required.\"}"]
                    /\ FramesOf(r, "error") = {1}
               ELSE /\ out[r] = <<>>
                    /\ response[r] =
                         <<[code |-> Num(400),
                            body |-> Obj(Single("error", RequiredMessage))]>>
            /\ filterCalls[r] = <<>>
            /\ getClientCalls[r] = <<>>
            /\ sendMessageCalls[r] = <<>>

C1_Witness ==
    /\ pc[Main] = "done"
    /\ Get(body[Main], "message") = Str("")
    /\ Get(body[Main], "stream") = Bool(TRUE)
    /\ Get(body[Main], "clientOptions") # Undefined
    /\ Len(out[Main]) = 2

\* a streaming request whose backend called onProgress only while
\* sendMessage was pending, resolved with a value, and whose handler returned
StreamedToEnd(r) ==
    /\ pc[r] = "done"
    /\ Get(body[r], "stream") = Bool(TRUE)
    /\ result[r] # Undefined
    /\ \A i \in 1..Len(progress[r]) : ~progress[r][i].late

\* the JSON text of the values sendMessage resolves with here
ResultText(v) ==
    IF v = Null THEN "null" ELSE "{\"text\":\"" \o v.v["text"].v \o "\"}"

\* the frames after the token frames of a successful stream, and the close
StreamTail(r) ==
    << [kind |-> "sse", event |-> "result", data |-> ResultText(result[r])],
       [kind |-> "sse", event |-> "", data |-> "[DONE]"],
       [kind |-> "end", event |-> "", data |-> ""] >>

TokenText(p) == [kind |-> "sse", event |-> "", data |-> "\"" \o p.token.v \o "\""]

NotSentinel(p) == p.token # Str("[DONE]")

C3_AbortOnce ==
    /\ [](\A r \in Reqs :
            /\ abortController[r].aborted <=> closes[r] >= 1
            /\ abortController[r].aborts = (IF closes[r] >= 1 THEN 1 ELSE 0))
    /\ [][\A r \in Reqs :
            abortController[r].aborted => abortController'[r].aborted]_vars

C3_Witness ==
    /\ closes[Main] = 2
    /\ abortController[Main].aborted
    /\ abortController[Main].aborts = 1
    /\ pc[Main] = "awaiting"

\* C4: once the client has disconnected with sendMessage pending, no frame
\* is handed to reply.sse for that request any more.
C4_NoFrameAfterDisconnect ==
    \A r \in Reqs :
        (Get(body[r], "stream") = Bool(TRUE) /\ outAtDisconnect[r] # -1) =>
            \A i \in 1..Len(out[r]) :
                i > outAtDisconnect[r] => out[r][i].kind # "sse"

\* C5: every failure of dispatch or of the backend call ends as an error
\* frame or a JSON error body; no exception leaves the handler.
C5_NothingEscapes ==
    \A r \in Reqs :
        Failed(r) =>
            /\ pc[r] # "escaped"
            /\ failure[r].resolved
            /\ IF Get(body[r], "stream") = Bool(TRUE)
               THEN Cardinality(FramesOf(r, "error")) = 1
               ELSE /\ Len(response[r]) = 1
                    /\ response[r][1].body =
                           Obj(Single("error", failure[r].message))

\* the failure carries an explicit code
HasCode(e) ==
    /\ e.t = "object"
    /\ "data" \in DOMAIN e.v
    /\ e.v["data"].t = "object"
    /\ "code" \in DOMAIN e.v["data"].v

\* C6: the code of a failed request is the explicit code of the failure if
\* it has one, else 401 for an UnauthorizedRequest, else 503.
C6_FailureCode ==
    \A r \in Reqs :
        Failed(r) =>
            /\ failure[r].resolved
            /\ failure[r].code =
                 IF HasCode(error[r]) THEN error[r].v["data"].v["code"]
                 ELSE IF error[r].t = "object"
                         /\ "name" \in DOMAIN error[r].v
                         /\ error[r].v["name"] = Str("UnauthorizedRequest")
                 THEN Num(401)
                 ELSE Num(503)

\* the caller's clientOptions.clientToUse, as the filter received it
Requested(r) == Get(filterCalls[r][1].inputOptions, "clientToUse")

\* the caller's clientToUse is one of the configured validClientsToUse
RequestedIsValid(r) ==
    /\ perMessageClientOptionsWhitelist.t = "object"
    /\ "validClientsToUse" \in DOMAIN perMessageClientOptionsWhitelist.v
    /\ \E i \in 1..Len(perMessageClientOptionsWhitelist.v["validClientsToUse"].v) :
          Str(perMessageClientOptionsWhitelist.v["validClientsToUse"].v[i])
              = Requested(r)

\* the backend class registered under an identifier
ClassOf(id) ==
    CASE id = "bing" -> "BingAIClient"
      [] id = "chatgpt-browser" -> "ChatGPTBrowserClient"
      [] id = "chatgpt" -> "ChatGPTClient"
      [] OTHER -> "none"

\* C7: when the caller's clientToUse is not in validClientsToUse (or there is
\* no such set, or no whitelist configuration), the backend resolved and
\* invoked is the configured default; the caller's value is used only when
\* it is in the valid set.
C7_DefaultUnlessValid ==
    \A r \in Reqs :
        getClientCalls[r] # <<>> =>
            /\ Len(getClientCalls[r]) = 1
            /\ getClientCalls[r][1] =
                 IF RequestedIsValid(r) THEN Requested(r).v ELSE clientToUse
            /\ sendMessageCalls[r] # <<>> =>
                 sendMessageCalls[r][1].client = ClassOf(getClientCalls[r][1])

C7_Witness ==
    /\ filterCalls[Main] # <<>>
    /\ Requested(Main) = Str("chatgpt-browser")
    /\ Truthy(Get(perMessageClientOptionsWhitelist, "validClientsToUse"))
    /\ clientToUse = "chatgpt"
    /\ sendMessageCalls[Main] # <<>>
    /\ sendMessageCalls[Main][1].client = "ChatGPTClient"

Registered == {"bing", "chatgpt-browser", "chatgpt", "dall-e-3"}

\* C8: an identifier outside the registered ones that reaches getClient
\* makes it fail: sendMessage is not called and the request ends with a
\* failure outcome.
C8_UnknownBackend ==
    \A r \in Reqs :
        (getClientCalls[r] # <<>> /\ getClientCalls[r][1] \notin Registered) =>
            /\ sendMessageCalls[r] = <<>>
            /\ progress[r] = <<>>
            /\ pc[r] \in {"nextTick", "done"}
            /\ result[r] = Undefined
            /\ failure[r].resolved
            /\ failure[r].message =
                 Str("Invalid clientToUse: " \o getClientCalls[r][1])

C8_Witness ==
    /\ getClientCalls[Main] = <<"custom">>
    /\ clientToUse = "chatgpt"
    /\ Requested(Main) = Str("custom")
    /\ pc[Main] = "done"
    /\ Len(response[Main]) = 1

C10_PassThroughWithoutWhitelist ==
    \A r \in Reqs :
        (/\ perMessageClientOptionsWhitelist = Null
         /\ sendMessageCalls[r] # <<>>
         /\ filterCalls[r][1].inputOptions.t = "object") =>
            /\ sendMessageCalls[r][1].clientOptions.t = "object"
            /\ \A k \in DOMAIN filterCalls[r][1].inputOptions.v :
                 Get(sendMessageCalls[r][1].clientOptions, k)
                     = filterCalls[r][1].inputOptions.v[k]

(***************************************************************************)
(* filterClientOptions on its own: the raw options object is                *)
(* body.clientOptions of Main, and the filter is called on it repeatedly,  *)
(* each call seeing what the calls before it wrote into the object.        *)
(***************************************************************************)
\* calls of the filter on one object
MaxCalls == 2

\* an options object of the listed properties, those given as Undefined
\* left out
Options(clientToUseOption, model, modelOptions) ==
    LET val(k) == CASE k = "clientToUse" -> clientToUseOption
                    [] k = "model" -> model
                    [] k = "modelOptions" -> modelOptions
    IN  Obj([k \in {k \in {"clientToUse", "model", "modelOptions"} :
                        val(k) # Undefined} |-> val(k)])

\* body.clientOptions: absent, null, a string, and objects whose properties
\* hold strings, null, objects and arrays
FilterOptions ==
    {Undefined, Null, Str("x")} \cup
    { Options(c, m, o) :
        c \in {Undefined, Str("bing"), Str("custom"), Str("chatgpt-browser"),
               Str("chatgpt")},
        m \in {Undefined, Str("m")},
        o \in {Undefined, Null,
               Obj([n \in {"temperature", "secret"} |->
                       IF n = "temperature" THEN Num(1) ELSE Str("s")]),
               Obj(Single("secret", Str("s"))),
               Arr(<<Str("x"), Str("y")>>)} }

\* settings.apiOptions.perMessageClientOptionsWhitelist || null
FilterWhitelists ==
    Whitelists \cup
    { Obj([k \in {"validClientsToUse", "chatgpt", "bing", "custom"} |->
            CASE k = "validClientsToUse" -> Arr(<<"bing", "custom">>)
              [] k = "chatgpt" -> Arr(<<"modelOptions", "modelOptions.secret">>)
              [] k = "bing" -> Arr(<<"modelOptions.0", "modelOptions.secret">>)
              [] k = "custom" -> Arr(<<>>)]) }

InitFilter ==
    /\ clientToUse \in DefaultClients
    /\ perMessageClientOptionsWhitelist \in FilterWhitelists
    /\ pc = [r \in Reqs |-> "idle"]
    /\ body \in {[r \in Reqs |-> IF r = Main
                                 THEN Body(Str("hi"), Undefined, o)
                                 ELSE Undefined] : o \in FilterOptions}
    /\ abortController = [r \in Reqs |-> [aborted |-> FALSE, aborts |-> 0]]
    /\ closes = [r \in Reqs |-> 0]
    /\ out = [r \in Reqs |-> <<>>]
    /\ response = [r \in Reqs |-> <<>>]
    /\ filterCalls = [r \in Reqs |-> <<>>]
    /\ getClientCalls = [r \in Reqs |-> <<>>]
    /\ sendMessageCalls = [r \in Reqs |-> <<>>]
    /\ progress = [r \in Reqs |-> <<>>]
    /\ result = [r \in Reqs |-> Undefined]
    /\ error = [r \in Reqs |-> Undefined]
    /\ failure = [r \in Reqs |-> NoFailure]
    /\ outAtDisconnect = [r \in Reqs |-> -1]

\* line 92 alone: filterClientOptions(body.clientOptions, clientToUse)
CallFilter(r) ==
    /\ Len(filterCalls[r]) < MaxCalls
    /\ LET raw == Get(body[r], "clientOptions")
           f == filterClientOptions(raw, clientToUse,
                                    perMessageClientOptionsWhitelist)
       IN  /\ filterCalls' = [filterCalls EXCEPT ![r] =
                   Append(@, [inputOptions |-> raw,
                              clientToUseForMessage |-> clientToUse,
                              threw |-> f.threw, ret |-> f.ret,
                              input |-> f.input])]
           /\ body' = [body EXCEPT ![r] =
                   IF raw.t = "object"
                   THEN Put(@, "clientOptions", f.input) ELSE @]
    /\ UNCHANGED <<config, pc, abortController, closes, out, response,
                   getClientCalls, sendMessageCalls, progress, result, error,
                   failure, outAtDisconnect>>

NextFilter == CallFilter(Main)

SpecFilter == InitFilter /\ [][NextFilter]_vars

\* the calls of the filter made so far
Calls ==
    UNION {{filterCalls[r][i] : i \in 1..Len(filterCalls[r])} : r \in Reqs}

\* the call's clientToUse is one of the configured validClientsToUse
CallAccepted(c) ==
    /\ perMessageClientOptionsWhitelist.t = "object"
    /\ "validClientsToUse" \in DOMAIN perMessageClientOptionsWhitelist.v
    /\ c.inputOptions.t = "object"
    /\ "clientToUse" \in DOMAIN c.inputOptions.v
    /\ \E i \in 1..Len(perMessageClientOptionsWhitelist.v["validClientsToUse"].v) :
          Str(perMessageClientOptionsWhitelist.v["validClientsToUse"].v[i])
              = c.inputOptions.v["clientToUse"]

\* the effective backend identifier of the call
Effective(c) ==
    IF CallAccepted(c) THEN c.inputOptions.v["clientToUse"].v
    ELSE c.clientToUseForMessage

\* the whitelist configuration has an entry for the call's effective backend
HasEntry(c) ==
    /\ perMessageClientOptionsWhitelist.t = "object"
    /\ Effective(c) \in DOMAIN perMessageClientOptionsWhitelist.v

\* that entry, as a set of names
Listed(c) ==
    LET entry == perMessageClientOptionsWhitelist.v[Effective(c)].v
    IN  {entry[i] : i \in 1..Len(entry)}

\* C11: every non-null value the filter returns has clientToUse equal to the
\* effective backend identifier (the accepted override, else the default),
\* with or without a whitelist entry, and whether or not the entry lists
\* "clientToUse".
C11_ClientToUsePresent ==
    \A c \in Calls :
        (~c.threw /\ c.ret # Null) =>
            /\ c.ret.t = "object"
            /\ "clientToUse" \in DOMAIN c.ret.v
            /\ c.ret.v["clientToUse"] = Str(Effective(c))

C11_Witness ==
    \E c \in Calls :
        /\ ~c.threw
        /\ c.ret # Null
        /\ CallAccepted(c)
        /\ Effective(c) # c.clientToUseForMessage
        /\ HasEntry(c)
        /\ "clientToUse" \notin Listed(c)
        /\ "model" \in DOMAIN c.inputOptions.v


\* C12: two calls of the filter in a row on the same raw options object,
\* with the same default and whitelist configuration, have equal outcomes:
\* structurally equal return values, or both throw.
C12_SecondCallEqual ==
    \A r \in Reqs :
        \A i \in 1..Len(filterCalls[r]) :
            i + 1 <= Len(filterCalls[r]) =>
                /\ filterCalls[r][i + 1].threw = filterCalls[r][i].threw
                /\ filterCalls[r][i + 1].ret = filterCalls[r][i].ret

\* the first call forced the default over the caller's clientToUse
C12_Witness ==
    /\ Len(filterCalls[Main]) = 2
    /\ filterCalls[Main][1].inputOptions.t = "object"
    /\ Get(filterCalls[Main][1].inputOptions, "clientToUse")
           = Str("chatgpt-browser")
    /\ filterCalls[Main][2].inputOptions # filterCalls[Main][1].inputOptions
    /\ HasEntry(filterCalls[Main][1])
    /\ filterCalls[Main][2].ret.t = "object"
    /\ "modelOptions" \in DOMAIN filterCalls[Main][2].ret.v


\* C13: a request that is not streaming gets exactly one response once its
\* handler is over: the backend's result with the default status when the
\* call succeeded, {error: message} with the resolved code when it failed.
C13_OneResponse ==
    \A r \in Reqs :
        (pc[r] \in {"done", "escaped"} /\ Get(body[r], "stream") # Bool(TRUE)) =>
            /\ Len(response[r]) = 1
            /\ out[r] = <<>>
            /\ IF result[r] # Undefined
               THEN response[r][1] = [code |-> Num(200), body |-> result[r]]
               ELSE /\ failure[r].resolved
                    /\ response[r][1] =
                         [code |-> failure[r].code,
                          body |-> Obj(Single("error", failure[r].message))]


\* C14: the filter never throws: whatever the raw options, it returns an
\* object or null.
C14_NeverThrows ==
    \A c \in Calls : ~c.threw /\ c.ret.t \in {"object", "null"}

\* the names n under property p of the call's raw options whose dotted name
\* p.n is listed
ListedUnder(c, p) ==
    IF c.inputOptions.v[p].t \in {"object", "array"}
    THEN {n \in Keys(c.inputOptions.v[p]) : (p \o "." \o n) \in Listed(c)}
    ELSE {}

\* C15: with a whitelist entry for the effective backend, the output holds,
\* besides clientToUse, exactly the properties listed verbatim (as they are)
\* and, for each unlisted object-valued property with a listed nested name,
\* a container of exactly its listed nested properties.
C15_OnlyWhitelisted ==
    \A c \in Calls :
        (~c.threw /\ c.ret # Null /\ HasEntry(c)) =>
            LET in == c.inputOptions.v
                ret == c.ret.v
                props == (DOMAIN in) \ {"clientToUse"}
            IN  /\ (DOMAIN ret) \ {"clientToUse"} \subseteq props
                /\ \A p \in props :
                      IF p \in Listed(c)
                      THEN p \in DOMAIN ret /\ ret[p] = in[p]
                      ELSE IF ListedUnder(c, p) # {}
                      THEN /\ p \in DOMAIN ret
                           /\ ret[p] = Obj([n \in ListedUnder(c, p) |->
                                              Own(in[p], n)])
                      ELSE p \notin DOMAIN ret

C15_Witness ==
    \E c \in Calls :
        /\ ~c.threw
        /\ c.ret # Null
        /\ HasEntry(c)
        /\ Listed(c) = {"modelOptions.0", "modelOptions.secret"}
        /\ DOMAIN c.inputOptions.v = {"clientToUse", "model", "modelOptions"}
        /\ DOMAIN c.inputOptions.v["modelOptions"].v = {"temperature", "secret"}
        /\ DOMAIN c.ret.v = {"clientToUse", "modelOptions"}
        /\ DOMAIN c.ret.v["modelOptions"].v = {"secret"}


\* the JSON text of {code, error: message} for the failure resolved for r
FailureText(r) ==
    "{\"code\":" \o ToString(failure[r].code.v) \o ",\"error\":\""
        \o failure[r].message.v \o "\"}"

\* the positions in out[r] of the calls of reply.raw.end()
Ends(r) == {i \in 1..Len(out[r]) : out[r][i].kind = "end"}

\* the streaming request r failed and its handler is over, the last being
\* one of the given positions
StreamFailed(r, over) ==
    /\ pc[r] \in over
    /\ Get(body[r], "stream") = Bool(TRUE)
    /\ result[r] = Undefined

\* what C16 asks of a failed stream
FailedStreamShape(r) ==
    /\ failure[r].resolved
    /\ Cardinality(FramesOf(r, "error")) = 1
    /\ \A i \in FramesOf(r, "error") : out[r][i].data = FailureText(r)
    /\ FramesOf(r, "result") = {}
    /\ \A i \in FramesOf(r, "") : out[r][i].data # "[DONE]"
    /\ Cardinality(Ends(r)) = 1
    /\ \A i \in FramesOf(r, "error") : \A j \in Ends(r) : i < j

\* C16: a streaming request whose dispatch or backend call fails gets exactly
\* one error frame carrying {code, error: message}, no result frame and no
\* done frame, and its stream is closed after the error frame.
C16_ErrorFrameThenClose ==
    \A r \in Reqs :
        StreamFailed(r, {"done", "escaped"}) => FailedStreamShape(r)


\* a frame without event name other than the done frame
IsTokenFrame(f) == f.kind = "sse" /\ f.event = "" /\ f.data # "[DONE]"

\* C17: when streaming, each onProgress call with a token other than
\* "[DONE]" gives exactly one token frame carrying that token, in call
\* order, and a call with "[DONE]" gives none; when not streaming, the
\* backend gets no callback and no frame is ever emitted.
C17_TokenFrames ==
    \A r \in Reqs :
        /\ LET sent == SelectSeq(progress[r], NotSentinel)
               frames == SelectSeq(out[r], IsTokenFrame)
           IN  frames = [i \in 1..Len(sent) |-> TokenText(sent[i])]
        /\ (pc[r] # "idle" /\ Get(body[r], "stream") # Bool(TRUE)) =>
              /\ out[r] = <<>>
              /\ progress[r] = <<>>
              /\ \A i \in 1..Len(sendMessageCalls[r]) :
                    ~sendMessageCalls[r][i].onProgress

C17_Witness ==
    /\ pc[Main] = "awaiting"
    /\ Len(progress[Main]) = 2
    /\ progress[Main][1].token = Str("[DONE]")
    /\ progress[Main][2].token = Str("a")
    /\ Len(out[Main]) = 1


\* C18: the filter changes no property of the raw options object other than
\* clientToUse, changes clientToUse only when the override is not accepted
\* (to the default identifier), and leaves the object as it was when the
\* override is accepted.
C18_OnlyClientToUseWritten ==
    \A c \in Calls :
        IF c.inputOptions.t # "object"
        THEN c.input = c.inputOptions
        ELSE /\ c.input.t = "object"
             /\ (DOMAIN c.input.v) \ {"clientToUse"}
                    = (DOMAIN c.inputOptions.v) \ {"clientToUse"}
             /\ \A k \in (DOMAIN c.inputOptions.v) \ {"clientToUse"} :
                    c.input.v[k] = c.inputOptions.v[k]
             /\ CallAccepted(c) => c.input = c.inputOptions
             /\ c.input # c.inputOptions =>
                    c.input.v["clientToUse"] = Str(c.clientToUseForMessage)

C18_Witness ==
    \E c \in Calls :
        /\ CallAccepted(c)
        /\ HasEntry(c)
        /\ ~c.threw
        /\ c.ret # c.inputOptions
        /\ DOMAIN c.inputOptions.v = {"clientToUse", "model", "modelOptions"}
        /\ c.input = c.inputOptions
        /\ c.inputOptions.v["clientToUse"] # Str(c.clientToUseForMessage)


(***************************************************************************)
(* Several requests in flight: every request of Reqs, each with a small    *)
(* set of inputs, interleaved at the awaits of their handlers.             *)
(***************************************************************************)
ConcBodies ==
    { Body(Str("hi"), Bool(TRUE), Undefined),
      Body(Str("hi"), Undefined, Undefined),
      Body(Undefined, Bool(TRUE), Undefined) }

ConcResults == {Obj(Single("text", Str("ab")))}

ConcRejections == {ErrorObj("Error", "boom")}

InitConc ==
    /\ Init
    /\ clientToUse = "chatgpt"
    /\ perMessageClientOptionsWhitelist = Null

NextConc ==
    \E r \in Reqs :
        \/ \E b \in ConcBodies : Receive(r, b)
        \/ Progress(r, Str("a"))
        \/ \E v \in ConcResults : Resolve(r, v)
        \/ \E e \in ConcRejections : Reject(r, e)
        \/ NextTick(r)
        \/ Close(r)

SpecConc == InitConc /\ [][NextConc]_vars

\* the step is none of request r: not a step of its handler, not a call of
\* its onProgress, not a close of its transport
NotOf(r) ==
    pc'[r] = pc[r] /\ progress'[r] = progress[r] /\ closes'[r] = closes[r]

\* C19: requests in flight share neither cancellation handle nor stream: a
\* request's flag is set only by a close of its own transport, and a step
\* of one request changes neither the flag, nor the frames, nor the
\* response of another.
C19_Isolation ==
    /\ [](\A r \in Reqs : abortController[r].aborted => closes[r] >= 1)
    /\ [][\A r \in Reqs :
            NotOf(r) => /\ abortController'[r] = abortController[r]
                        /\ out'[r] = out[r]
                        /\ response'[r] = response[r]]_vars

C19_Witness ==
    /\ \A r \in Reqs : pc[r] = "awaiting" /\ sendMessageCalls[r][1].onProgress
    /\ abortController["r2"].aborted
    /\ ~abortController["r1"].aborted
    /\ Len(out["r1"]) = 2
    /\ out["r2"] = <<>>


\* request r is completed: one response and no stream, or a stream closed
\* once and no response
Completed(r) ==
    IF Get(body[r], "stream") = Bool(TRUE)
    THEN Cardinality(Ends(r)) = 1 /\ response[r] = <<>>
    ELSE Len(response[r]) = 1 /\ Ends(r) = {}

\* nothing is sent or closed twice
AtMostOnce(r) == Cardinality(Ends(r)) <= 1 /\ Len(response[r]) <= 1

\* C20: a request rejected at validation or dispatch, or whose backend call
\* has settled, is completed (one JSON response, or the stream closed once)
\* or has only the timer of nextTick between it and the close of its
\* stream; it is uncompleted otherwise only while sendMessage is pending.
C20_SettledCompletes ==
    \A r \in Reqs :
        /\ AtMostOnce(r)
        /\ pc[r] \notin {"idle", "awaiting"} =>
              \/ Completed(r) /\ pc[r] = "done"
              \/ pc[r] = "nextTick" /\ Get(body[r], "stream") = Bool(TRUE)

====
